---- MODULE Spec2Model ----
(***************************************************************************)
(* Model of the octopus ingestion pipeline: the per-platform standardizers,*)
(* the deduplication gate (BaseCollector.save_messages), the collector     *)
(* runner (BaseCollector.run_collector), the Celery collect task that      *)
(* wraps it and the service entry point that enqueues it.                  *)
(*                                                                         *)
(* Storage is modelled at the level the code relies on: a committed        *)
(* Message table with a unique content_hash column, and one SQLAlchemy     *)
(* session per task invocation (pending objects, rows flushed in the open  *)
(* transaction, autoflush before every query, commit).                     *)
(*                                                                         *)
(* Text is a sequence of characters drawn from 0..AlphabetSize-1, where    *)
(* character 0 stands for "\n".                                            *)
(*                                                                         *)
(* The second half of the pipeline is mention extraction: the four signals *)
(* of MessageProcessor.extract_token_mentions over a Token catalog, the    *)
(* bulk entry points that store Mentions, and the second task of the       *)
(* collect_and_process chain, which Celery sends when the collect task has *)
(* succeeded.                                                              *)
(***************************************************************************)
EXTENDS Integers, Sequences, FiniteSets, TLC

VARIABLES
    collectors,   \* Collector table: id -> row
    messages,     \* Message table: committed rows in insertion order
    queue,        \* collect tasks dispatched by the chain, not yet picked up
    worker,       \* per Celery worker: position in the task, locals, session
    upstream,     \* Telegram channel history: channel id -> texts, message id = index
    nextTask,     \* number of task ids handed out so far
    ghost,        \* history of save_messages calls (for the properties only)
    std,          \* Messages produced by the standardizers (SpecStd only)
    tokens,       \* Token table (the catalog), in id order
    mentions,     \* Mention table: committed rows in insertion order
    stage2,       \* second stages of the chains: dispatched, and how they ended
    ext           \* the last call and its outcome (specifications of one component)

vars == <<collectors, messages, queue, worker, upstream, nextTask, ghost, std,
          tokens, mentions, stage2, ext>>

----------------------------------------------------------------------------
(* Bounds *)

AlphabetSize == 3      \* characters 0 (newline), 1, 2
MaxRuns      == 2      \* enqueues per behaviour
MaxHistory   == 2      \* items in the upstream Telegram channel
MaxLimit     == 1      \* largest per-channel limit in a configuration
MaxBatch     == 2      \* items one Discord call hands back
MaxStd       == 3      \* standardized Messages kept in SpecStd

Workers       == {1, 2}
CollectorIds  == {1, 2}

NL == 0
TextA == <<1>>
TextB == <<2>>
TextAB == <<1, NL, NL, 2>>       \* "1\n\n2"
Empty == <<>>

----------------------------------------------------------------------------
(* hashlib.md5(text.encode()).hexdigest(): a digest of the characters of   *)
(* the text and of nothing else.  On the bounded text domain it is         *)
(* modelled as a collision-free positional digest.                         *)

RECURSIVE Md5(_)
Md5(s) ==
    IF s = <<>> THEN 1
    ELSE Md5(SubSeq(s, 1, Len(s) - 1)) * AlphabetSize + s[Len(s)]

\* Python truthiness of a str: "if not msg.message" skips None and "".
Truthy(s) == s # <<>>

RECURSIVE Extend(_)
\* messages = []; for part in parts: messages.extend(part)
Extend(parts) ==
    IF parts = <<>> THEN <<>>
    ELSE Head(parts) \o Extend(Tail(parts))

----------------------------------------------------------------------------
(* Standardizers.  raw_data is a list of per-sub-target results; each      *)
(* result carries the platform-native items.                               *)

Message(platform, source_id, content, content_hash, author_id, collector_id) ==
    [platform |-> platform, source_id |-> source_id, content |-> content,
     content_hash |-> content_hash, author_id |-> author_id,
     collector_id |-> collector_id]

\* TelegramCollector.standardize_message, inner loop body for one msg
TelegramItem(msg, collector_id) ==
    IF ~Truthy(msg.message) THEN <<>>
    ELSE << Message("telegram", msg.id, msg.message, Md5(msg.message),
                    msg.author, collector_id) >>

\* TelegramCollector.standardize_message, outer loop body for one result
TelegramResult(data, collector_id) ==
    IF ~data.entity THEN <<>>
    ELSE Extend([k \in DOMAIN data.messages |-> TelegramItem(data.messages[k], collector_id)])

TelegramStandardize(raw_data, collector_id) ==
    Extend([k \in DOMAIN raw_data |-> TelegramResult(raw_data[k], collector_id)])

\* DiscordCollector.standardize_message
DiscordItem(msg, collector_id) ==
    IF ~Truthy(msg.message) THEN <<>>
    ELSE << Message("discord", msg.id, msg.message, Md5(msg.message),
                    msg.author, collector_id) >>

DiscordResult(data, collector_id) ==
    Extend([k \in DOMAIN data.messages |-> DiscordItem(data.messages[k], collector_id)])

DiscordStandardize(raw_data, collector_id) ==
    Extend([k \in DOMAIN raw_data |-> DiscordResult(raw_data[k], collector_id)])

\* faulty variant of TwitterItem: the author is hashed with the text
TwitterItemSalted(tweet, collector_id) ==
    << Message("twitter", tweet.id, tweet.message,
               Md5(<<tweet.author>> \o tweet.message), tweet.author, collector_id) >>

\* TwitterCollector.standardize_message: no empty-text skip
TwitterItem(tweet, collector_id) ==
    << Message("twitter", tweet.id, tweet.message, Md5(tweet.message),
               tweet.author, collector_id) >>

TwitterResult(data, collector_id) ==
    Extend([k \in DOMAIN data.tweets |-> TwitterItem(data.tweets[k], collector_id)])

TwitterStandardize(raw_data, collector_id) ==
    Extend([k \in DOMAIN raw_data |-> TwitterResult(raw_data[k], collector_id)])

\* RedditCollector.standardize_message: content = f"{title}\n\n{selftext}"
RedditContent(post) == post.title \o <<NL, NL>> \o post.selftext

RedditItem(post, collector_id) ==
    IF ~Truthy(post.selftext) /\ ~Truthy(post.title) THEN <<>>
    ELSE << Message("reddit", post.id, RedditContent(post),
                    Md5(RedditContent(post)), post.author, collector_id) >>

RedditResult(data, collector_id) ==
    Extend([k \in DOMAIN data.posts |-> RedditItem(data.posts[k], collector_id)])

RedditStandardize(raw_data, collector_id) ==
    Extend([k \in DOMAIN raw_data |-> RedditResult(raw_data[k], collector_id)])

----------------------------------------------------------------------------
(* Collector configuration.  The config column holds JSON text; a text is  *)
(* modelled by whether it parses and by the value it parses to.            *)

None == "None"

JsonText(valid, value) == [valid |-> valid, value |-> value]

\* json.dumps(config)
JsonDumps(value) == JsonText(TRUE, value)

\* json.loads(text): the parsed value, or JSONDecodeError
JsonLoads(text) ==
    IF text.valid THEN [ok |-> TRUE, value |-> text.value]
    ELSE [ok |-> FALSE, value |-> text.value]

Channel(id, username, limit, offset_id) ==
    [id |-> id, username |-> username, limit |-> limit, offset_id |-> offset_id]

\* Python "a or b" on optional strings
Or(a, b) == IF a # None THEN a ELSE b

Min(a, b) == IF a < b THEN a ELSE b

\* last_run_message texts
TaskMsg(task_id)   == <<"Task ID:", task_id>>
RunningMsg         == <<"Running">>
CollectedMsg(n)    == <<"Collected", n, "new messages">>
ErrorMsg(e)        == <<"Error:", e>>
NoMsg              == <<>>

----------------------------------------------------------------------------
(* Telegram source adapter *)

\* client(GetHistoryRequest(peer, limit, offset_id, ...)): Telegram returns
\* the history newest first, at most limit items, and with offset_id # 0
\* only items whose id is below offset_id (offset_id = 0: from the newest).
GetHistoryRequest(history, limit, offset_id) ==
    LET top == IF offset_id = 0 THEN Len(history)
               ELSE Min(offset_id - 1, Len(history))
        n   == Min(limit, top)
    IN  [k \in 1..n |->
            [id |-> top - k + 1, message |-> history[top - k + 1], author |-> 1]]

\* TelegramCollector.collect_channel_messages: any exception gives the
\* empty result with entity None.
CollectChannelMessages(channel, limit, offset_id, api_fails) ==
    IF api_fails \/ channel \notin DOMAIN upstream
    THEN [messages |-> <<>>, entity |-> FALSE]
    ELSE [messages |-> GetHistoryRequest(upstream[channel], limit, offset_id),
          entity |-> TRUE]

\* the "update offset_id" loop of collect_data_async for one result
UpdateOffsetId(channels, channel, result) ==
    IF result.messages # <<>>
    THEN [i \in DOMAIN channels |->
            IF channels[i].username = channel.username
               \/ channels[i].id = channel.id
            THEN [channels[i] EXCEPT !.offset_id = result.messages[1].id]
            ELSE channels[i]]
    ELSE channels

RECURSIVE CollectChannels(_, _, _, _)
\* the "for channel in config['channels']" loop, from position k on; the
\* entries are mutated in place, so a later iteration reads updated cursors
CollectChannels(channels, k, results, failing) ==
    IF k > Len(channels) THEN [channels |-> channels, results |-> results]
    ELSE LET channel == channels[k]
             result  == CollectChannelMessages(Or(channel.username, channel.id),
                                               channel.limit, channel.offset_id,
                                               k \in failing)
         IN  CollectChannels(UpdateOffsetId(channels, channel, result), k + 1,
                             Append(results, result), failing)

\* TelegramCollector.collect_data_async once connected and authorized:
\* the config (mutated) and the results
TelegramCollectData(config, failing) ==
    LET r == CollectChannels(config.channels, 1, <<>>, failing)
    IN  [config |-> [config EXCEPT !.channels = r.channels], raw_data |-> r.results]

----------------------------------------------------------------------------
(* Message table and SQLAlchemy session *)

\* faulty variant of UniqueViolation: the column without unique=True
NoUniqueConstraint(rows, m) == FALSE

\* content_hash = db.Column(db.String(64), unique=True): inserting m among
\* rows violates the constraint
UniqueViolation(rows, m) ==
    \E k \in DOMAIN rows : rows[k].content_hash = m.content_hash

\* rows a query of worker w sees: committed rows and its own flushed rows
Visible(w) == messages \o worker[w].flushed

\* faulty variant of Existing: only the first row of the table is compared
ExistingFirstRowOnly(rows, h) == rows # <<>> /\ rows[1].content_hash = h

\* Message.query.filter_by(content_hash=h).first() is not None
Existing(rows, h) == \E k \in DOMAIN rows : rows[k].content_hash = h

\* rows other open transactions have inserted and not yet committed
RECURSIVE OthersFlushedOf(_, _)
OthersFlushedOf(ws, w) ==
    IF ws = {} THEN <<>>
    ELSE LET o == CHOOSE x \in ws : TRUE
         IN  (IF o = w THEN <<>> ELSE worker[o].flushed) \o OthersFlushedOf(ws \ {o}, w)

OthersFlushed(w) == OthersFlushedOf(Workers, w)

RECURSIVE Flush(_, _, _)
\* session.flush(): INSERT the pending objects in order.  "ok" with the rows
\* now flushed, "integrity" when an INSERT violates the unique constraint
\* against a committed row or a row of this transaction, "blocked" when it
\* waits on an uncommitted row of another transaction.
Flush(w, pending, flushed) ==
    IF pending = <<>> THEN [result |-> "ok", flushed |-> flushed]
    ELSE LET m == Head(pending)
         IN  IF UniqueViolation(messages \o flushed, m)
             THEN [result |-> "integrity", flushed |-> flushed]
             ELSE IF UniqueViolation(OthersFlushed(w), m)
             THEN [result |-> "blocked", flushed |-> flushed]
             ELSE Flush(w, Tail(pending), Append(flushed, m))

----------------------------------------------------------------------------
(* State of one Celery worker between tasks: no task, a fresh session.     *)

CollectorRow(type, config) ==
    [collector_type |-> type, config |-> config, is_active |-> TRUE,
     last_run_status |-> None, last_run_message |-> NoMsg]

IdleWorker ==
    [pc |-> "idle", cid |-> 0, ctype |-> "", task_id |-> 0,
     has_collector |-> FALSE,
     config |-> [channels |-> <<>>],     \* run_collector's local config
     batch |-> <<>>,                     \* messages handed to save_messages
     i |-> 1,                            \* position of save_messages' loop
     saved_count |-> 0,
     pending |-> <<>>,                   \* session.add()ed, not yet flushed
     flushed |-> <<>>,                   \* INSERTed in the open transaction
     needs_rollback |-> FALSE,           \* a flush failed outside commit()
     err |-> "",                         \* str(e) of the exception in flight
     task_state |-> "PENDING",           \* Celery state of the collect task
     ret |-> 0,                          \* what the collect task returns
     \* history, for the properties only
     wrote_running |-> FALSE,            \* this run committed 'running'
     bad_config |-> FALSE,               \* json.loads raised
     collect_called |-> FALSE,           \* collect_data was called
     save_called |-> FALSE,              \* save_messages was called
     raised |-> FALSE,                   \* an exception was raised in the run
     skipped |-> FALSE,                  \* the gate skipped a candidate
     added |-> 0,                        \* rows this run committed
     call_store |-> <<>>,                \* Message table when save_messages began
     advanced |-> [channels |-> <<>>],   \* config as collect_data left it
     seen_len |-> 0,                     \* length of the channel when collected
     newest |-> 0,                       \* id of the newest item collected
     sub_failed |-> {},                  \* sub-targets whose upstream call failed
     expected |-> {},                    \* texts the other sub-targets held
     end_row |-> CollectorRow("", JsonText(FALSE, [channels |-> <<>>]))]
                                         \* the Collector row when the task ended

ChannelKey == "42"

TelegramConfigs ==
    { [channels |-> << Channel(ChannelKey, None, limit, 0) >>] : limit \in 1..MaxLimit }

DiscordConfig == [channels |-> << Channel("7", None, MaxBatch, 0) >>]

BadJson == JsonText(FALSE, [channels |-> <<>>])

Texts == {Empty, TextA, TextB}

\* what the channel's authors post after the first item: a new text or an
\* item without text (media only)
PostTexts == {Empty, TextB}

\* upstream items a Discord channel may hand back in one call
RECURSIVE SeqsUpTo(_, _)
SeqsUpTo(S, n) ==
    IF n = 0 THEN {<<>>}
    ELSE LET shorter == SeqsUpTo(S, n - 1)
         IN  shorter \cup { Append(q, x) : q \in shorter, x \in S }

DiscordBatches == {<<Empty>>} \cup SeqsUpTo({TextA, TextB}, MaxBatch)

DiscordMessages(batch) ==
    [k \in DOMAIN batch |-> [id |-> k, message |-> batch[k], author |-> 2]]

\* DiscordCollector.collect_data_async once logged in: one result per
\* configured channel
DiscordCollectData(config, batch) ==
    [config |-> config,
     raw_data |-> [k \in DOMAIN config.channels |->
                      [messages |-> DiscordMessages(batch), entity |-> TRUE]]]

\* the tweet each Twitter user has posted
UserTimeline == ("u1" :> TextA @@ "u2" :> TextB)

\* TwitterCollector.collect_user_tweets: a dict of four entries; a
\* TweepyException gives the same dict with no tweets and user None
CollectUserTweets(user, api_fails) ==
    [tweets |-> IF api_fails THEN <<>>
                ELSE <<[id |-> 1, message |-> UserTimeline[user.username], author |-> 1]>>,
     user |-> ~api_fails, source_name |-> user.username, type |-> "user"]

\* "tweets, user_info = value": iterating the value must give two items
UnpacksToTwo(value) == Cardinality(DOMAIN value) = 2

\* the try block of TwitterCollector.run_collector (the override that runs
\* for a twitter collector; its module is read as importing Collector):
\* the first user's result is unpacked into two names
TwitterTryBlock(config, failing) ==
    IF config.users # <<>>
    THEN LET result == CollectUserTweets(config.users[1], 1 \in failing)
         IN  IF UnpacksToTwo(result)
             THEN [err |-> "", called |-> DOMAIN config.users]
             ELSE [err |-> "ValueError", called |-> {1}]
    ELSE [err |-> "", called |-> {}]

\* the texts the sub-targets outside failing hold upstream, as the run's
\* configuration addresses them
TelegramExpected(config, failing) ==
    UNION { { GetHistoryRequest(upstream[Or(config.channels[k].username,
                                                config.channels[k].id)],
                                    config.channels[k].limit,
                                    config.channels[k].offset_id)[j].message :
                j \in 1..Len(GetHistoryRequest(
                                upstream[Or(config.channels[k].username,
                                            config.channels[k].id)],
                                config.channels[k].limit,
                                config.channels[k].offset_id)) }
            : k \in DOMAIN config.channels \ failing } \ {Empty}

TwitterExpected(config, failing) ==
    { UserTimeline[config.users[k].username] : k \in DOMAIN config.users \ failing }

\* self.standardize_message of the adapter the factory built
Standardize(ctype, raw_data, collector_id) ==
    IF ctype = "telegram" THEN TelegramStandardize(raw_data, collector_id)
    ELSE DiscordStandardize(raw_data, collector_id)

\* the candidates of a batch, as (platform, text)
Candidates(batch) ==
    { [platform |-> batch[k].platform, content |-> batch[k].content] : k \in DOMAIN batch }

\* id of the newest item in the results of collect_data (0: none)
Newest(raw_data) ==
    IF raw_data # <<>> /\ raw_data[1].messages # <<>>
    THEN raw_data[1].messages[1].id ELSE 0

(***************************************************************************)
(* Mention extraction (MessageProcessor).  Here a text is a sequence of    *)
(* one-character strings; "han" stands for one character of the range      *)
(* U+4E00..U+9FFF.  A confidence is written in tenths (9 is 0.9).          *)
(***************************************************************************)
MaxPieces == 2
MaxEnts   == 1

SymbolMin == 2
SymbolMax == 10
SymbolConfidence  == 9
EntityConfidence  == 7
NameConfidence    == 8
AddressConfidence == 10

Latin  == {"a", "b", "A", "B"}
Digits == {"0"}
Han    == {"han"}

\* str.lower() on one character
Lower(c) == CASE c = "A" -> "a" [] c = "B" -> "b" [] OTHER -> c

\* str.lower()
LowerText(t) == [k \in DOMAIN t |-> Lower(t[k])]

\* the class [A-Za-z0-9]
IsAlnum(c) == c \in Latin \cup Digits

RECURSIVE AlnumRun(_, _)
\* length of the longest run of [A-Za-z0-9] starting at position i
AlnumRun(text, i) ==
    IF i <= Len(text) /\ IsAlnum(text[i]) THEN 1 + AlnumRun(text, i + 1) ELSE 0

RECURSIVE FindAll(_, _)
\* re.findall(r'\$([A-Za-z0-9]{2,10})', text) from position i: leftmost,
\* greedy, non-overlapping; the group is what follows the "$"
FindAll(text, i) ==
    IF i > Len(text) THEN <<>>
    ELSE LET n == Min(AlnumRun(text, i + 1), SymbolMax)
         IN  IF text[i] = "$" /\ n >= SymbolMin
             THEN <<SubSeq(text, i + 1, i + n)>> \o FindAll(text, i + n + 1)
             ELSE FindAll(text, i + 1)

\* needle in hay
IsSubstring(needle, hay) ==
    \E i \in 0..(Len(hay) - Len(needle)) : SubSeq(hay, i + 1, i + Len(needle)) = needle

\* len(re.findall(class, text))
CountIn(text, class) == Cardinality({ k \in DOMAIN text : text[k] \in class })

\* MessageProcessor.detect_language
DetectLanguage(text) ==
    IF ~Truthy(text) THEN "unknown"
    ELSE IF CountIn(text, Latin) > CountIn(text, Han) THEN "en"
    ELSE IF CountIn(text, Han) > 0 THEN "zh"
    ELSE "en"

\* A row of the Token table
Token(id, symbol, name, address) ==
    [id |-> id, symbol |-> symbol, name |-> name, address |-> address]

\* token_map = {token.symbol.lower(): token for token in all_tokens}, then
\* token_map.get(key): a later token replaces an earlier one under its key.
\* The value is <<>> for None and <<token>> for a token.
TokenMapGet(all_tokens, key) ==
    LET ks == { k \in DOMAIN all_tokens : LowerText(all_tokens[k].symbol) = key }
    IN  IF ks = {} THEN <<>>
        ELSE <<all_tokens[CHOOSE k \in ks : \A j \in ks : j <= k]>>

\* one (token, confidence) tuple of the mentions list
Entry(token, confidence) == [token |-> token.id, confidence |-> confidence]

\* any(m[0].id == token.id for m in mentions)
HasToken(ms, token) == \E k \in DOMAIN ms : ms[k].token = token.id

RECURSIVE SymbolSignal(_, _)
\* step 3: for symbol in symbols
SymbolSignal(symbols, all_tokens) ==
    IF symbols = <<>> THEN <<>>
    ELSE LET token == TokenMapGet(all_tokens, LowerText(Head(symbols)))
         IN  (IF Truthy(token) THEN <<Entry(token[1], SymbolConfidence)>> ELSE <<>>)
                 \o SymbolSignal(Tail(symbols), all_tokens)

EntityLabels == {"ORG", "PRODUCT"}

RECURSIVE EntityTokens(_, _, _, _)
\* step 4, inner loop: for token in all_tokens, from the k-th on
EntityTokens(ms, ent, all_tokens, k) ==
    IF k > Len(all_tokens) THEN ms
    ELSE LET token == all_tokens[k]
         IN  EntityTokens(
                 IF LowerText(token.name) = LowerText(ent.text) /\ ~HasToken(ms, token)
                 THEN Append(ms, Entry(token, EntityConfidence)) ELSE ms,
                 ent, all_tokens, k + 1)

RECURSIVE EntityMatches(_, _, _)
\* step 4, outer loop: for ent in doc.ents
EntityMatches(ms, ents, all_tokens) ==
    IF ents = <<>> THEN ms
    ELSE EntityMatches(
             IF Head(ents).label \in EntityLabels
             THEN EntityTokens(ms, Head(ents), all_tokens, 1) ELSE ms,
             Tail(ents), all_tokens)

EntitySignalIgnoresModels(ms, text, all_tokens, processor, ents) ==
    EntityMatches(ms, ents, all_tokens)

\* step 4: the entity branch runs when the model of the detected language is
\* there; ents is what that model returns for the text
EntitySignal(ms, text, all_tokens, processor, ents) ==
    IF \/ DetectLanguage(text) = "en" /\ processor.nlp_en
       \/ DetectLanguage(text) = "zh" /\ processor.nlp_zh
    THEN EntityMatches(ms, ents, all_tokens)
    ELSE ms

RECURSIVE NameAddressSignal(_, _, _, _)
\* step 5: for token in all_tokens, from the k-th on: name, then address
NameAddressSignal(ms, text, all_tokens, k) ==
    IF k > Len(all_tokens) THEN ms
    ELSE LET token  == all_tokens[k]
             byName == IF IsSubstring(LowerText(token.name), LowerText(text))
                          /\ ~HasToken(ms, token)
                       THEN Append(ms, Entry(token, NameConfidence)) ELSE ms
             byAddr == IF IsSubstring(LowerText(token.address), LowerText(text))
                          /\ ~HasToken(byName, token)
                       THEN Append(byName, Entry(token, AddressConfidence)) ELSE byName
         IN  NameAddressSignal(byAddr, text, all_tokens, k + 1)

\* MessageProcessor.extract_token_mentions
ExtractTokenMentions(content, all_tokens, processor, ents) ==
    IF ~Truthy(content) THEN <<>>
    ELSE LET bySymbol == SymbolSignal(FindAll(content, 1), all_tokens)
             byEntity == EntitySignal(bySymbol, content, all_tokens, processor, ents)
         IN  NameAddressSignal(byEntity, content, all_tokens, 1)

\* MessageProcessor.__init__: one try block loads both models, so a failure
\* of either leaves both unset
MessageProcessor(en_ok, zh_ok) ==
    [nlp_en |-> en_ok /\ zh_ok, nlp_zh |-> en_ok /\ zh_ok]

(***************************************************************************)
(* Bulk extraction: the entry points of MessageProcessor over the stored   *)
(* messages.  A message's id is its position in the Message table.         *)
(***************************************************************************)
MaxStored    == 2
MaxBulkLimit == 2
MaxMentions  == 4

\* A row of the Mention table
Mention(message_id, entry) ==
    [message_id |-> message_id, token_id |-> entry.token, confidence |-> entry.confidence]

\* self.nlp_en(text).ents / self.nlp_zh(text).ents: the recogniser either
\* finds nothing or labels as ORG each catalog name that occurs in the text
Recognise(text, all_tokens, ner) ==
    IF ner = "names"
    THEN Extend([k \in DOMAIN all_tokens |->
                    IF IsSubstring(LowerText(all_tokens[k].name), LowerText(text))
                    THEN <<[text |-> all_tokens[k].name, label |-> "ORG"]>> ELSE <<>>])
    ELSE <<>>

NeverProcessed(ms, message_id) == FALSE

\* message.mentions.count() > 0
AlreadyProcessed(ms, message_id) == \E k \in DOMAIN ms : ms[k].message_id = message_id

\* MessageProcessor.save_mentions: one Mention per entry, one commit
SaveMentions(ms, message_id, entries) ==
    ms \o [k \in DOMAIN entries |-> Mention(message_id, entries[k])]

\* MessageProcessor.process, as the Mention table it leaves
Process(ms, message_id, processor, ner) ==
    IF message_id \notin DOMAIN messages THEN ms
    ELSE IF AlreadyProcessed(ms, message_id) THEN ms
    ELSE SaveMentions(ms, message_id,
             ExtractTokenMentions(messages[message_id].content, tokens, processor,
                 Recognise(messages[message_id].content, tokens, ner)))

RECURSIVE BatchProcess(_, _, _, _)
\* MessageProcessor.batch_process
BatchProcess(ms, message_ids, processor, ner) ==
    IF message_ids = <<>> THEN ms
    ELSE BatchProcess(Process(ms, Head(message_ids), processor, ner),
                      Tail(message_ids), processor, ner)

\* ~Message.id.in_(processed_ids)
Unprocessed(ms) ==
    { k \in DOMAIN messages : \A j \in DOMAIN ms : ms[j].message_id # k }

\* Message.collector_id == collector_id, ~Message.id.in_(processed_ids)
UnprocessedOf(ms, collector_id) ==
    { k \in Unprocessed(ms) : messages[k].collector_id = collector_id }

RECURSIVE OrderByTimestampDesc(_)
OrderByTimestampDesc(ids) ==
    IF ids = {} THEN <<>>
    ELSE LET top == CHOOSE k \in ids :
                       \A j \in ids : messages[j].timestamp <= messages[k].timestamp
         IN  <<top>> \o OrderByTimestampDesc(ids \ {top})

\* .order_by(Message.timestamp.desc()).limit(limit).all()
Selected(ids, limit) ==
    LET all == OrderByTimestampDesc(ids)
    IN  SubSeq(all, 1, Min(limit, Len(all)))

\* MessageProcessor.process_unprocessed_messages
ProcessUnprocessedMessages(ms, limit, processor, ner) ==
    BatchProcess(ms, Selected(Unprocessed(ms), limit), processor, ner)

\* MessageProcessor.process_collector_messages
ProcessCollectorMessages(ms, collector_id, limit, processor, ner) ==
    BatchProcess(ms, Selected(UnprocessedOf(ms, collector_id), limit), processor, ner)

Processors == { MessageProcessor(en_ok, zh_ok) : en_ok \in BOOLEAN, zh_ok \in BOOLEAN }

\* no MessageProcessor has been constructed
NoProcessor == [made |-> FALSE]

Init ==
    /\ \E c1 \in {JsonDumps(v) : v \in TelegramConfigs} \cup {BadJson} :
          collectors = (1 :> CollectorRow("telegram", c1)
                        @@ 2 :> CollectorRow("discord", JsonDumps(DiscordConfig)))
    /\ messages = <<>>
    /\ queue = {}
    /\ worker = [w \in Workers |-> IdleWorker]
    /\ upstream = (ChannelKey :> <<TextA>>)
    /\ nextTask = 0
    /\ ghost = [offered |-> {}, has_last |-> FALSE, last_batch |-> <<>>,
                prev_seen_len |-> 0, prev_newest |-> 0]
    /\ std = {}
    /\ tokens = <<>>
    /\ mentions = <<>>
    /\ stage2 = {}
    /\ ext = NoProcessor

----------------------------------------------------------------------------
(* CollectorService.run_collector followed by collect_and_process: mark    *)
(* the collector pending under a fresh task id and dispatch the chain,     *)
(* whose first stage is the collect task of the collector's type.  The     *)
(* service reads the row's is_active and collector_type columns under the  *)
(* names active and type.                                                  *)
\* collector_service.py lines 208-210
MarkPending(row, task_id) ==
    [row EXCEPT !.last_run_status = "pending", !.last_run_message = TaskMsg(task_id)]

\* faulty variant of MarkRunningByTask: the message is written, the status
\* is not
MarkRunningByTaskMessageOnly(row, task_id) ==
    [row EXCEPT !.last_run_message = IF task_id # 0 THEN TaskMsg(task_id) ELSE RunningMsg]

\* tasks/collectors/*_collector.py lines 27-29
MarkRunningByTask(row, task_id) ==
    [row EXCEPT !.last_run_status = "running",
                !.last_run_message = IF task_id # 0 THEN TaskMsg(task_id) ELSE RunningMsg]

\* base_collector.py lines 108-109
MarkRunning(row) == [row EXCEPT !.last_run_status = "running"]

\* faulty variant of MarkSuccess: the configuration is not written back
MarkSuccessKeepConfig(row, config, total_saved) ==
    [row EXCEPT !.last_run_status = "success",
                !.last_run_message = CollectedMsg(total_saved)]

\* base_collector.py lines 125-127
MarkSuccess(row, config, total_saved) ==
    [row EXCEPT !.config = JsonDumps(config), !.last_run_status = "success",
                !.last_run_message = CollectedMsg(total_saved)]

\* base_collector.py lines 131-132 and tasks/collectors lines 45-46
MarkFailure(row, e) ==
    [row EXCEPT !.last_run_status = "failure", !.last_run_message = ErrorMsg(e)]

\* chains.py line 41: process_collector_messages.s(collector_id, task_id),
\* the second task of the chain enqueued for collector cid under task id
\* chain.  It travels with the first task ("linked") until it is sent.
ProcessTask(chain, cid, args) ==
    [chain |-> chain, cid |-> cid, args |-> args, state |-> "linked",
     err |-> "", collector_id |-> 0]

Enqueue(c) ==
    /\ nextTask < MaxRuns
    /\ collectors[c].is_active
    /\ collectors[c].collector_type \in {"twitter", "telegram", "reddit", "discord"}
    /\ LET task_id == nextTask + 1
       IN  /\ collectors' = [collectors EXCEPT ![c] = MarkPending(@, task_id)]
           /\ queue' = queue \cup {[cid |-> c, ctype |-> collectors[c].collector_type,
                                    task_id |-> task_id]}
           /\ stage2' = stage2 \cup {ProcessTask(task_id, c, <<c, task_id>>)}
           /\ nextTask' = task_id
    /\ UNCHANGED <<messages, worker, upstream, ghost, std, tokens, mentions, ext>>

\* tasks/collectors/*_collector.collect, lines 25-30
TaskStart(w) ==
    /\ worker[w].pc = "idle"
    /\ \E item \in queue :
        /\ queue' = queue \ {item}
        /\ collectors' =
             IF item.cid \in DOMAIN collectors
             THEN [collectors EXCEPT ![item.cid] = MarkRunningByTask(@, item.task_id)]
             ELSE collectors
        /\ worker' = [worker EXCEPT ![w] =
             [IdleWorker EXCEPT !.pc = "run", !.cid = item.cid, !.ctype = item.ctype,
                                !.task_id = item.task_id, !.task_state = "STARTED",
                                !.has_collector = item.cid \in DOMAIN collectors,
                                !.wrote_running =
                                    collectors'[item.cid].last_run_status = "running"]]
    /\ UNCHANGED <<messages, upstream, nextTask, ghost, std, tokens, mentions, stage2, ext>>

\* what run_collector does when json.loads(collector.config) raises
\* JSONDecodeError: log and return 0; no column is written
OnInvalidConfig(row) == row

\* CollectorFactory.create_collector(type) and run_collector up to the
\* commit of status 'running' (base_collector.py lines 90-110)
RunLoad(w) ==
    /\ worker[w].pc = "run"
    /\ LET c   == worker[w].cid
           row == collectors[c]
           cfg == JsonLoads(row.config)
       IN \E ctor_raises \in BOOLEAN :
          IF ctor_raises
          THEN /\ worker' = [worker EXCEPT ![w].pc = "except_task",
                                           ![w].err = "ValueError",
                                           ![w].raised = TRUE]
               /\ UNCHANGED collectors
          ELSE IF row.collector_type # worker[w].ctype
          THEN /\ worker' = [worker EXCEPT ![w].pc = "done", ![w].task_state = "SUCCESS",
                                           ![w].end_row = row]
               /\ UNCHANGED collectors
          ELSE IF ~cfg.ok
          THEN /\ worker' = [worker EXCEPT ![w].pc = "done", ![w].task_state = "SUCCESS",
                                           ![w].bad_config = TRUE,
                                           ![w].end_row = OnInvalidConfig(row)]
               /\ collectors' = [collectors EXCEPT ![c] = OnInvalidConfig(row)]
          ELSE /\ worker' = [worker EXCEPT ![w].pc = "collect", ![w].config = cfg.value,
                                           ![w].wrote_running =
                                               @ \/ MarkRunning(row).last_run_status = "running"]
               /\ collectors' = [collectors EXCEPT ![c] = MarkRunning(row)]
    /\ UNCHANGED <<messages, queue, upstream, nextTask, ghost, std, tokens, mentions, stage2, ext>>

\* self.collect_data(config) and self.standardize_message(raw_data,
\* collector_id) (base_collector.py lines 116-119).  connect()/login() is
\* outside the adapters' per-sub-target try blocks, so its exception
\* reaches run_collector; an unauthorized Telegram client returns [].
Collect(w) ==
    /\ worker[w].pc = "collect"
    /\ LET c == worker[w].cid
           Begin(r) ==
               [worker EXCEPT ![w].pc = "save", ![w].config = r.config,
                              ![w].advanced = r.config,
                              ![w].batch = Standardize(worker[w].ctype, r.raw_data, c),
                              ![w].i = 1, ![w].saved_count = 0,
                              ![w].call_store = messages,
                              ![w].collect_called = TRUE,
                              ![w].save_called = TRUE,
                              ![w].seen_len = Len(upstream[ChannelKey]),
                              ![w].newest = Newest(r.raw_data),
                              ![w].sub_failed = r.failed,
                              ![w].expected = r.expected]
       IN IF worker[w].ctype = "twitter"
          THEN \E failing \in SUBSET DOMAIN worker[w].config.users :
                 LET t == TwitterTryBlock(worker[w].config, failing)
                 IN /\ worker' =
                         [worker EXCEPT
                            ![w].pc = IF t.err # "" THEN "except_run" ELSE "finish",
                            ![w].err = t.err,
                            ![w].raised = t.err # "",
                            ![w].collect_called = TRUE,
                            ![w].sub_failed = failing \cap t.called,
                            ![w].expected = TwitterExpected(worker[w].config, failing)]
                    /\ UNCHANGED ghost
          ELSE
          \E conn \in {"ok", "unauthorized", "error"} :
          IF conn = "error"
          THEN /\ worker' = [worker EXCEPT ![w].pc = "except_run",
                                           ![w].err = "ConnectionError",
                                           ![w].raised = TRUE,
                                           ![w].collect_called = TRUE]
               /\ UNCHANGED ghost
          ELSE \E r \in
                 IF worker[w].ctype = "telegram"
                 THEN IF conn = "unauthorized"
                      THEN {[config |-> worker[w].config, raw_data |-> <<>>,
                             failed |-> {}, expected |-> {}]}
                      ELSE {[config |-> TelegramCollectData(worker[w].config, failing).config,
                             raw_data |-> TelegramCollectData(worker[w].config, failing).raw_data,
                             failed |-> failing,
                             expected |-> TelegramExpected(worker[w].config, failing)] :
                               failing \in SUBSET DOMAIN worker[w].config.channels}
                 ELSE IF conn = "unauthorized" THEN {}
                      ELSE {[config |-> DiscordCollectData(worker[w].config, b).config,
                             raw_data |-> DiscordCollectData(worker[w].config, b).raw_data,
                             failed |-> {}, expected |-> {}] : b \in DiscordBatches} :
               /\ worker' = Begin(r)
               /\ ghost' = [ghost EXCEPT !.offered =
                              @ \cup Candidates(Standardize(worker[w].ctype, r.raw_data, c))]
    /\ UNCHANGED <<collectors, messages, queue, upstream, nextTask, std, tokens, mentions, stage2, ext>>

\* faulty variant of GateAdmits: rows of other platforms are not compared
GateAdmitsPerPlatform(rows, m) ==
    ~\E k \in DOMAIN rows :
        rows[k].content_hash = m.content_hash /\ rows[k].platform = m.platform

\* the gate's existence check (base_collector.py lines 67-69): the candidate
\* is new when no visible row carries its content_hash
GateAdmits(rows, m) == ~Existing(rows, m.content_hash)

\* the rows Message.query sees: the session autoflushes before the SELECT
QueryRows(w, flushed_now) == messages \o flushed_now

\* the session after a failed flush in a query (autoflush): the
\* transaction is rolled back and the session refuses further work until
\* rollback() is called; after a failed commit() the session has already
\* been rolled back and is usable
FailedSession(wk, in_commit, e) ==
    [wk EXCEPT !.pc = "except_run", !.err = e, !.raised = TRUE,
               !.pending = <<>>, !.flushed = <<>>,
               !.needs_rollback = ~in_commit]

\* one iteration of save_messages' loop (base_collector.py lines 65-72)
SaveStep(w) ==
    /\ worker[w].pc = "save"
    /\ worker[w].i <= Len(worker[w].batch)
    /\ LET f == Flush(w, worker[w].pending, worker[w].flushed)
           m == worker[w].batch[worker[w].i]
       IN /\ f.result # "blocked"
          /\ IF f.result = "integrity"
             THEN worker' = [worker EXCEPT ![w] = FailedSession(@, FALSE, "IntegrityError")]
             ELSE IF GateAdmits(QueryRows(w, f.flushed), m)
             THEN worker' = [worker EXCEPT ![w].flushed = f.flushed,
                                           ![w].pending = <<m>>,
                                           ![w].saved_count = @ + 1,
                                           ![w].i = @ + 1]
             ELSE worker' = [worker EXCEPT ![w].flushed = f.flushed,
                                           ![w].pending = <<>>,
                                           ![w].skipped = TRUE,
                                           ![w].i = @ + 1]
    /\ UNCHANGED <<collectors, messages, queue, upstream, nextTask, ghost, std, tokens, mentions, stage2, ext>>

\* the end of save_messages (base_collector.py lines 74-78): one commit
\* per call, and only when something was added
SaveDone(w) ==
    /\ worker[w].pc = "save"
    /\ worker[w].i > Len(worker[w].batch)
    /\ IF worker[w].saved_count > 0
       THEN LET f == Flush(w, worker[w].pending, worker[w].flushed)
            IN /\ f.result # "blocked"
               /\ IF f.result = "integrity"
                  THEN /\ worker' = [worker EXCEPT ![w] =
                                        FailedSession(@, TRUE, "IntegrityError")]
                       /\ UNCHANGED messages
                  ELSE /\ messages' = messages \o f.flushed
                       /\ worker' = [worker EXCEPT ![w].pc = "finish",
                                                   ![w].pending = <<>>,
                                                   ![w].flushed = <<>>,
                                                   ![w].added = @ + Len(f.flushed)]
       ELSE /\ worker' = [worker EXCEPT ![w].pc = "finish"]
            /\ UNCHANGED messages
    /\ UNCHANGED <<collectors, queue, upstream, nextTask, ghost, std, tokens, mentions, stage2, ext>>

\* an INSERT that waits on another transaction's uncommitted row is ended
\* by the database (lock wait timeout, deadlock victim): the flush raises
LockTimeout(w) ==
    /\ worker[w].pc = "save"
    /\ Flush(w, worker[w].pending, worker[w].flushed).result = "blocked"
    /\ worker' = [worker EXCEPT ![w] =
                    FailedSession(@, worker[w].i > Len(worker[w].batch), "OperationalError")]
    /\ UNCHANGED <<collectors, messages, queue, upstream, nextTask, ghost, std, tokens, mentions, stage2, ext>>

\* run_collector's success branch and final commit (lines 124-127, 134)
FinishOk(w) ==
    /\ worker[w].pc = "finish"
    /\ collectors' = [collectors EXCEPT ![worker[w].cid] =
                        MarkSuccess(@, worker[w].config, worker[w].saved_count)]
    /\ worker' = [worker EXCEPT ![w].pc = "done", ![w].task_state = "SUCCESS",
                                ![w].ret = worker[w].saved_count,
                                ![w].end_row = collectors'[worker[w].cid]]
    /\ ghost' = [ghost EXCEPT !.has_last = TRUE, !.last_batch = worker[w].batch,
                              !.prev_seen_len =
                                  IF worker[w].ctype = "telegram" THEN worker[w].seen_len ELSE @,
                              !.prev_newest =
                                  IF worker[w].ctype = "telegram" THEN worker[w].newest ELSE @]
    /\ UNCHANGED <<messages, queue, upstream, nextTask, std, tokens, mentions, stage2, ext>>

\* faulty variant of ExceptRun: the except branch also writes the
\* configuration that collect_data advanced
ExceptRunWritesConfig(w) ==
    /\ worker[w].pc = "except_run"
    /\ collectors' = [collectors EXCEPT ![worker[w].cid] =
                        [MarkFailure(@, worker[w].err) EXCEPT
                            !.config = IF worker[w].save_called
                                       THEN JsonDumps(worker[w].advanced) ELSE @]]
    /\ worker' = [worker EXCEPT ![w].pc = "done", ![w].task_state = "SUCCESS",
                                ![w].end_row = collectors'[worker[w].cid]]
    /\ UNCHANGED <<messages, queue, upstream, nextTask, ghost, std, tokens, mentions, stage2, ext>>

\* run_collector's except branch and final commit (lines 129-134): the
\* commit raises when the session still needs a rollback
ExceptRun(w) ==
    /\ worker[w].pc = "except_run"
    /\ IF worker[w].needs_rollback
       THEN /\ worker' = [worker EXCEPT ![w].pc = "except_task",
                                        ![w].err = "PendingRollbackError"]
            /\ UNCHANGED collectors
       ELSE /\ collectors' = [collectors EXCEPT ![worker[w].cid] =
                                MarkFailure(@, worker[w].err)]
            /\ worker' = [worker EXCEPT ![w].pc = "done", ![w].task_state = "SUCCESS",
                                        ![w].end_row = collectors'[worker[w].cid]]
    /\ UNCHANGED <<messages, queue, upstream, nextTask, ghost, std, tokens, mentions, stage2, ext>>

\* the collect task's except branch (tasks/collectors lines 40-50)
ExceptTask(w) ==
    /\ worker[w].pc = "except_task"
    /\ IF worker[w].has_collector /\ ~worker[w].needs_rollback
       THEN collectors' = [collectors EXCEPT ![worker[w].cid] =
                             MarkFailure(@, worker[w].err)]
       ELSE UNCHANGED collectors
    /\ worker' = [worker EXCEPT ![w].pc = "done", ![w].task_state = "FAILURE",
                                ![w].end_row = collectors'[worker[w].cid]]
    /\ UNCHANGED <<messages, queue, upstream, nextTask, ghost, std, tokens, mentions, stage2, ext>>

\* Celery, when a task of a chain ends in SUCCESS: its link is sent with the
\* task's return value put in front of the link's own arguments
OnSuccess(m, chain, retval) ==
    IF m.chain = chain /\ m.state = "linked"
    THEN [m EXCEPT !.state = "queued", !.args = <<retval>> \o @]
    ELSE m

\* the task's app context ends: the session is removed, the worker is free;
\* a collect task that succeeded hands its chain on
TaskEnd(w) ==
    /\ worker[w].pc = "done"
    /\ worker' = [worker EXCEPT ![w] = IdleWorker]
    /\ stage2' = IF worker[w].task_state = "SUCCESS"
                 THEN { OnSuccess(m, worker[w].task_id, worker[w].ret) : m \in stage2 }
                 ELSE stage2
    /\ UNCHANGED <<collectors, messages, queue, upstream, nextTask, ghost, std, tokens, mentions, ext>>

DeliverableOnSubmit(m) == m.state \in {"linked", "queued"}

\* a worker may take the second task once it has been sent
Deliverable(m) == m.state = "queued"

\* a worker takes the second task of a chain
Stage2Start(w) ==
    /\ worker[w].pc = "idle"
    /\ \E m \in stage2 :
        /\ Deliverable(m)
        /\ stage2' = (stage2 \ {m}) \cup {[m EXCEPT !.state = "STARTED"]}
        /\ worker' = [worker EXCEPT ![w] =
             [IdleWorker EXCEPT !.pc = "stage2", !.task_id = m.chain]]
    /\ UNCHANGED <<collectors, messages, queue, upstream, nextTask, ghost, std, tokens, mentions, ext>>

DefaultLimit == 100

\* parameters of process_collector_messages besides self
ProcessParams == <<"collector_id", "task_id">>

\* tasks/processors/message_processor.process_collector_messages called with
\* the second task's arguments: more positional arguments than parameters is
\* a TypeError raised before the body runs; otherwise the body extracts for
\* the collector bound to collector_id and the task ends with the worker free
Stage2Run(w) ==
    /\ worker[w].pc = "stage2"
    /\ \E m \in stage2 :
        /\ m.chain = worker[w].task_id
        /\ m.state = "STARTED"
        /\ IF Len(m.args) > Len(ProcessParams)
           THEN /\ stage2' = (stage2 \ {m}) \cup
                                {[m EXCEPT !.state = "FAILURE", !.err = "TypeError"]}
                /\ UNCHANGED mentions
           ELSE /\ \E processor \in Processors, ner \in {"nothing", "names"} :
                     mentions' = ProcessCollectorMessages(mentions, m.args[1], DefaultLimit,
                                                          processor, ner)
                /\ stage2' = (stage2 \ {m}) \cup
                                {[m EXCEPT !.state = "SUCCESS", !.collector_id = m.args[1]]}
    /\ worker' = [worker EXCEPT ![w] = IdleWorker]
    /\ UNCHANGED <<collectors, messages, queue, upstream, nextTask, ghost, std, tokens, ext>>

\* the platform: a new item appears in the Telegram channel
UpstreamPost(text) ==
    /\ Len(upstream[ChannelKey]) < MaxHistory
    /\ upstream' = [upstream EXCEPT ![ChannelKey] = Append(@, text)]
    /\ UNCHANGED <<collectors, messages, queue, worker, nextTask, ghost, std, tokens, mentions, stage2, ext>>

Step(w) ==
    \/ TaskStart(w)
    \/ RunLoad(w)
    \/ Collect(w)
    \/ SaveStep(w)
    \/ SaveDone(w)
    \/ FinishOk(w)
    \/ ExceptRun(w)
    \/ ExceptTask(w)
    \/ TaskEnd(w)

\* the second task of a chain, on worker w
Stage2(w) ==
    \/ Stage2Start(w)
    \/ Stage2Run(w)

Next ==
    \/ \E c \in CollectorIds : Enqueue(c)
    \/ \E w \in Workers : Step(w)
    \/ \E w \in Workers : Stage2(w)
    \/ \E w \in Workers : LockTimeout(w)
    \/ \E text \in PostTexts : UpstreamPost(text)

Spec == Init /\ [][Next]_vars

\* sequential invocation of the collect tasks: one worker, so one run (one
\* save_messages call) at a time; second tasks that were sent stay queued
NextSeq ==
    \/ \E c \in CollectorIds : Enqueue(c)
    \/ Step(1)
    \/ \E text \in PostTexts : UpstreamPost(text)

SpecSeq == Init /\ [][NextSeq]_vars

\* configurations with two sub-targets each: a Telegram collector with two
\* channels and a Twitter collector with two users, run one at a time
SecondChannel == "43"

TwoChannels ==
    [channels |-> << Channel(ChannelKey, None, MaxLimit, 0),
                     Channel(SecondChannel, None, MaxLimit, 0) >>]

TwoUsers ==
    [users |-> << [username |-> "u1", count |-> MaxLimit, since_id |-> None],
                  [username |-> "u2", count |-> MaxLimit, since_id |-> None] >>]

InitSub ==
    /\ collectors = (1 :> CollectorRow("telegram", JsonDumps(TwoChannels))
                     @@ 2 :> CollectorRow("twitter", JsonDumps(TwoUsers)))
    /\ messages = <<>>
    /\ queue = {}
    /\ worker = [w \in Workers |-> IdleWorker]
    /\ \E t \in {TextA, TextB} :
          upstream = (ChannelKey :> <<TextA>> @@ SecondChannel :> <<t>>)
    /\ nextTask = 0
    /\ ghost = [offered |-> {}, has_last |-> FALSE, last_batch |-> <<>>,
                prev_seen_len |-> 0, prev_newest |-> 0]
    /\ std = {}
    /\ tokens = <<>>
    /\ mentions = <<>>
    /\ stage2 = {}
    /\ ext = NoProcessor

SpecSub == InitSub /\ [][NextSeq]_vars

----------------------------------------------------------------------------
(* The standardizers on their own: raw items drawn from bounded sets, each *)
(* platform's standardize_message applied to a one-item result.            *)

\* an item and its author: item v is written by author v
RawVariants == {1, 2}

RawItems ==
    { [id |-> v, message |-> t, author |-> v] :
        v \in RawVariants, t \in {Empty, TextA, TextAB} }

RedditPosts ==
    { [id |-> v, title |-> t, selftext |-> b, author |-> v] :
        v \in RawVariants, t \in {Empty, TextA}, b \in {Empty, TextB} }

InitStd ==
    /\ collectors = (1 :> CollectorRow("telegram", BadJson)
                     @@ 2 :> CollectorRow("discord", JsonDumps(DiscordConfig)))
    /\ messages = <<>>
    /\ queue = {}
    /\ worker = [w \in Workers |-> IdleWorker]
    /\ upstream = (ChannelKey :> <<TextA>>)
    /\ nextTask = 0
    /\ ghost = [offered |-> {}, has_last |-> FALSE, last_batch |-> <<>>,
                prev_seen_len |-> 0, prev_newest |-> 0]
    /\ std = {}
    /\ tokens = <<>>
    /\ mentions = <<>>
    /\ stage2 = {}
    /\ ext = NoProcessor

Kept(batch) == std \cup { batch[k] : k \in DOMAIN batch }

StdTelegram(item, c) ==
    /\ std' = Kept(TelegramStandardize(<<[messages |-> <<item>>, entity |-> TRUE]>>, c))
    /\ Cardinality(std') <= MaxStd
    /\ UNCHANGED <<collectors, messages, queue, worker, upstream, nextTask, ghost, tokens, mentions, stage2, ext>>

StdDiscord(item, c) ==
    /\ std' = Kept(DiscordStandardize(<<[messages |-> <<item>>]>>, c))
    /\ Cardinality(std') <= MaxStd
    /\ UNCHANGED <<collectors, messages, queue, worker, upstream, nextTask, ghost, tokens, mentions, stage2, ext>>

StdTwitter(item, c) ==
    /\ std' = Kept(TwitterStandardize(<<[tweets |-> <<item>>]>>, c))
    /\ Cardinality(std') <= MaxStd
    /\ UNCHANGED <<collectors, messages, queue, worker, upstream, nextTask, ghost, tokens, mentions, stage2, ext>>

StdReddit(post, c) ==
    /\ std' = Kept(RedditStandardize(<<[posts |-> <<post>>]>>, c))
    /\ Cardinality(std') <= MaxStd
    /\ UNCHANGED <<collectors, messages, queue, worker, upstream, nextTask, ghost, tokens, mentions, stage2, ext>>

NextStd ==
    \/ \E item \in RawItems, c \in CollectorIds : StdTelegram(item, c)
    \/ \E item \in RawItems, c \in CollectorIds : StdDiscord(item, c)
    \/ \E item \in RawItems, c \in CollectorIds : StdTwitter(item, c)
    \/ \E post \in RedditPosts, c \in CollectorIds : StdReddit(post, c)

SpecStd == InitStd /\ [][NextStd]_vars

(***************************************************************************)
(* The extractor on its own: a catalog, a message text put together from  *)
(* a few pieces and what the entity recogniser would return for it; then a *)
(* processor is constructed and extracts.                                  *)
(***************************************************************************)
T1 == Token(1, <<"a", "b">>, <<"b", "a">>, <<"0", "a">>)
T2 == Token(2, <<"A", "b">>, <<"b", "b">>, <<"0", "b">>)

Catalogs == { <<T1>>, <<T1, T2>> }

Pieces == { <<"$", "a", "b">>, <<"$", "A", "B">>, <<"b", "a">>, <<"B", "a">>,
            <<"0", "a">>, <<" ">>, <<"han">> }

ExtTexts == { Extend(ps) : ps \in SeqsUpTo(Pieces, MaxPieces) }

\* what an entity recogniser can return for a text: spans of the text, each
\* under a label
Spans(text) == { SubSeq(text, i, j) : i \in 1..Len(text), j \in 1..Len(text) } \ {<<>>}

EntsOf(text) ==
    SeqsUpTo({ [text |-> s, label |-> l] : s \in Spans(text), l \in {"ORG", "PERSON"} },
             MaxEnts)

InitExt ==
    /\ collectors = (1 :> CollectorRow("telegram", BadJson)
                     @@ 2 :> CollectorRow("discord", JsonDumps(DiscordConfig)))
    /\ messages = <<>>
    /\ queue = {}
    /\ worker = [w \in Workers |-> IdleWorker]
    /\ upstream = (ChannelKey :> <<TextA>>)
    /\ nextTask = 0
    /\ ghost = [offered |-> {}, has_last |-> FALSE, last_batch |-> <<>>,
                prev_seen_len |-> 0, prev_newest |-> 0]
    /\ std = {}
    /\ tokens \in Catalogs
    /\ mentions = <<>>
    /\ stage2 = {}
    /\ \E text \in ExtTexts \cup {<<>>} : \E ents \in EntsOf(text) :
          ext = [made |-> FALSE, extracted |-> FALSE, text |-> text, ents |-> ents]

\* ProcessorFactory.create_processor('message')
NewProcessor(en_ok, zh_ok) ==
    /\ ext' = [made |-> TRUE, extracted |-> FALSE, text |-> ext.text, ents |-> ext.ents,
               processor |-> MessageProcessor(en_ok, zh_ok)]
    /\ UNCHANGED <<collectors, messages, queue, worker, upstream, nextTask, ghost, std, tokens, mentions, stage2>>

\* one call of extract_token_mentions on the message
Extract ==
    /\ ext.made
    /\ ext' = [ext EXCEPT !.extracted = TRUE] @@
               [result |-> ExtractTokenMentions(ext.text, tokens, ext.processor, ext.ents)]
    /\ UNCHANGED <<collectors, messages, queue, worker, upstream, nextTask, ghost, std, tokens, mentions, stage2>>

NextExt ==
    \/ \E en_ok \in BOOLEAN, zh_ok \in BOOLEAN : NewProcessor(en_ok, zh_ok)
    \/ Extract

SpecExt == InitExt /\ [][NextExt]_vars

(***************************************************************************)
(* The entry points on their own, over a stored Message table.             *)
(***************************************************************************)
BulkTexts == { <<"$", "a", "b">>, <<"b", "a", "0", "b">>, <<" ">> }

\* stored messages: any collector, texts that differ from row to row (the
\* content_hash column is unique and is a digest of the text), timestamps
\* in storage order
StoredRows(n) ==
    { [k \in 1..n |->
          Message("telegram", k, content[k], Md5(<<k>>), 1, cid[k]) @@ [timestamp |-> k]] :
        content \in { f \in [1..n -> BulkTexts] : \A i, j \in 1..n : f[i] = f[j] => i = j },
        cid \in [1..n -> CollectorIds] }

NoRun == [entry |-> "none", args |-> <<>>, covered |-> FALSE, repeat |-> FALSE,
          after_covered |-> FALSE, had |-> {}, added |-> 0]

InitBulk ==
    /\ collectors = (1 :> CollectorRow("telegram", BadJson)
                     @@ 2 :> CollectorRow("discord", JsonDumps(DiscordConfig)))
    /\ \E n \in 0..MaxStored : messages \in StoredRows(n)
    /\ queue = {}
    /\ worker = [w \in Workers |-> IdleWorker]
    /\ upstream = (ChannelKey :> <<TextA>>)
    /\ nextTask = 0
    /\ ghost = [offered |-> {}, has_last |-> FALSE, last_batch |-> <<>>,
                prev_seen_len |-> 0, prev_newest |-> 0]
    /\ std = {}
    /\ tokens = <<T1, T2>>
    /\ mentions = <<>>
    /\ stage2 = {}
    /\ \E ner \in {"nothing", "names"} : ext = [ner |-> ner, last |-> NoRun]

\* bookkeeping of one run of an entry point: what ran, whether it took every
\* message it could have, whether it repeats the run before it
RunRecord(entry, args, covered, had) ==
    [entry |-> entry, args |-> args, covered |-> covered,
     repeat |-> ext.last.entry = entry /\ ext.last.args = args,
     after_covered |-> ext.last.entry = entry /\ ext.last.args = args /\ ext.last.covered,
     had |-> had, added |-> Len(mentions') - Len(mentions)]

Ran(entry, args, covered, had) ==
    /\ Len(mentions') <= MaxMentions
    /\ ext' = [ext EXCEPT !.last = RunRecord(entry, args, covered, had)]
    /\ UNCHANGED <<collectors, messages, queue, worker, upstream, nextTask, ghost, std, tokens, stage2>>

\* a call of MessageProcessor.process(message_id)
BulkProcess(message_id, processor) ==
    /\ mentions' = Process(mentions, message_id, processor, ext.ner)
    /\ Ran("process", <<message_id>>, TRUE,
           { k \in {message_id} : AlreadyProcessed(mentions, k) })

\* a call of MessageProcessor.batch_process(message_ids)
BulkBatch(message_ids, processor) ==
    /\ mentions' = BatchProcess(mentions, message_ids, processor, ext.ner)
    /\ Ran("batch_process", message_ids, TRUE,
           { message_ids[k] : k \in { j \in DOMAIN message_ids :
                                        AlreadyProcessed(mentions, message_ids[j]) } })

\* POST /processors/message/unprocessed, and the process_all task
BulkUnprocessed(limit, processor) ==
    /\ mentions' = ProcessUnprocessedMessages(mentions, limit, processor, ext.ner)
    /\ Ran("process_unprocessed_messages", <<limit>>,
           Cardinality(Unprocessed(mentions)) <= limit,
           { k \in DOMAIN messages : AlreadyProcessed(mentions, k) })

\* POST /processors/message/collector/<id>, and the process_messages task
BulkCollector(collector_id, limit, processor) ==
    /\ mentions' = ProcessCollectorMessages(mentions, collector_id, limit, processor, ext.ner)
    /\ Ran("process_collector_messages", <<collector_id, limit>>,
           Cardinality(UnprocessedOf(mentions, collector_id)) <= limit,
           { k \in DOMAIN messages : /\ messages[k].collector_id = collector_id
                                     /\ AlreadyProcessed(mentions, k) })

NextBulk ==
    \/ \E message_id \in 1..(MaxStored + 1), processor \in Processors :
          BulkProcess(message_id, processor)
    \/ \E message_ids \in SeqsUpTo(1..MaxStored, 2), processor \in Processors :
          BulkBatch(message_ids, processor)
    \/ \E limit \in 1..MaxBulkLimit, processor \in Processors :
          BulkUnprocessed(limit, processor)
    \/ \E collector_id \in CollectorIds, limit \in 1..MaxBulkLimit, processor \in Processors :
          BulkCollector(collector_id, limit, processor)

SpecBulk == InitBulk /\ [][NextBulk]_vars

(***************************************************************************)
(* The type registry: CollectorFactory, the type check of                  *)
(* CollectorService.create_collector and the dispatch of                   *)
(* collect_and_process, each called with any type name.                    *)
(***************************************************************************)
MaxCollectors == 2

\* get_supported_types()
Implemented == {"twitter", "telegram", "reddit", "discord"}
Planned     == {"wechat", "qq"}

TypeNames == Implemented \cup Planned \cup {"weibo", ""}

\* _get_collector_type of each adapter class
AdapterType ==
    ("TwitterCollector" :> "twitter" @@ "TelegramCollector" :> "telegram"
     @@ "RedditCollector" :> "reddit" @@ "DiscordCollector" :> "discord")

Raised(e) == [outcome |-> "raised", error |-> e, collector_type |-> ""]

\* cls(**kwargs): the constructor builds the platform client from the
\* application's credentials, which the client library may refuse
Construct(cls, ctor_raises) ==
    IF ctor_raises THEN Raised("ClientError")
    ELSE [outcome |-> "returned", error |-> "", collector_type |-> AdapterType[cls]]

CreateCollectorPlannedToo(collector_type, ctor_raises) ==
    IF collector_type \in Implemented \cup Planned
    THEN [outcome |-> "returned", error |-> "", collector_type |-> collector_type]
    ELSE Raised("ValueError")

\* CollectorFactory.create_collector
CreateCollector(collector_type, ctor_raises) ==
    IF collector_type = "twitter" THEN Construct("TwitterCollector", ctor_raises)
    ELSE IF collector_type = "telegram" THEN Construct("TelegramCollector", ctor_raises)
    ELSE IF collector_type = "reddit" THEN Construct("RedditCollector", ctor_raises)
    ELSE IF collector_type = "discord" THEN Construct("DiscordCollector", ctor_raises)
    ELSE IF collector_type = "wechat" THEN Raised("ValueError")
    ELSE IF collector_type = "qq" THEN Raised("ValueError")
    ELSE Raised("ValueError")

\* CollectorService.create_collector up to the new row: the type check, then
\* the check that the configuration is JSON
ServiceCreate(collector_type, config) ==
    IF collector_type \notin {"twitter", "telegram", "reddit", "discord"}
    THEN Raised("ValueError: Unsupported collector type")
    ELSE IF ~config.valid
    THEN Raised("ValueError: Invalid configuration format")
    ELSE [outcome |-> "created", error |-> "", collector_type |-> collector_type]

\* collect_and_process: the choice of the collect task by type
ChainDispatch(collector_type) ==
    IF collector_type = "twitter" THEN [outcome |-> "dispatched", error |-> "", collector_type |-> "twitter"]
    ELSE IF collector_type = "telegram" THEN [outcome |-> "dispatched", error |-> "", collector_type |-> "telegram"]
    ELSE IF collector_type = "reddit" THEN [outcome |-> "dispatched", error |-> "", collector_type |-> "reddit"]
    ELSE IF collector_type = "discord" THEN [outcome |-> "dispatched", error |-> "", collector_type |-> "discord"]
    ELSE Raised("ValueError")

InitReg ==
    /\ collectors = <<>>
    /\ messages = <<>>
    /\ queue = {}
    /\ worker = [w \in Workers |-> IdleWorker]
    /\ upstream = (ChannelKey :> <<TextA>>)
    /\ nextTask = 0
    /\ ghost = [offered |-> {}, has_last |-> FALSE, last_batch |-> <<>>,
                prev_seen_len |-> 0, prev_newest |-> 0]
    /\ std = {}
    /\ tokens = <<>>
    /\ mentions = <<>>
    /\ stage2 = {}
    /\ ext = [op |-> "none", type |-> "", ctor_raises |-> FALSE, result |-> Raised("")]

RegUnchanged ==
    UNCHANGED <<messages, queue, worker, upstream, nextTask, ghost, std, tokens, mentions, stage2>>

FactoryCall(collector_type, ctor_raises) ==
    /\ ext' = [op |-> "factory", type |-> collector_type, ctor_raises |-> ctor_raises,
               result |-> CreateCollector(collector_type, ctor_raises)]
    /\ UNCHANGED collectors
    /\ RegUnchanged

ServiceCall(collector_type, config) ==
    /\ Len(collectors) < MaxCollectors
    /\ ext' = [op |-> "service", type |-> collector_type, ctor_raises |-> FALSE,
               result |-> ServiceCreate(collector_type, config)]
    /\ collectors' = IF ext'.result.outcome = "created"
                     THEN Append(collectors, CollectorRow(collector_type, config))
                     ELSE collectors
    /\ RegUnchanged

DispatchCall(collector_type) ==
    /\ ext' = [op |-> "dispatch", type |-> collector_type, ctor_raises |-> FALSE,
               result |-> ChainDispatch(collector_type)]
    /\ UNCHANGED collectors
    /\ RegUnchanged

NextReg ==
    \/ \E t \in TypeNames, ctor_raises \in BOOLEAN : FactoryCall(t, ctor_raises)
    \/ \E t \in TypeNames, config \in {JsonDumps(DiscordConfig), BadJson} : ServiceCall(t, config)
    \/ \E t \in TypeNames : DispatchCall(t)

SpecReg == InitReg /\ [][NextReg]_vars

(***************************************************************************)
(* The sequential runs with a worker that keeps going: a started task's   *)
(* code runs on, each adapter call returning or raising, so a step of the  *)
(* worker that stays possible is eventually taken.                         *)
(***************************************************************************)
SpecSeqFair == Init /\ [][NextSeq]_vars /\ WF_vars(Step(1))

(***************************************************************************)
(* Extraction cycles: process_unprocessed_messages called again and again  *)
(* with the limit of the first call (the loop of process_all_messages, a   *)
(* periodic schedule), over a Message table that no longer grows.  Every   *)
(* call returns, so a further cycle is always taken.                       *)
(***************************************************************************)
\* one cycle: process_unprocessed_messages(limit), the ids selected once
\* and handed to batch_process
Cycle(limit, processor) ==
    \E message_ids \in {Selected(Unprocessed(mentions), limit)} :
      \E after \in {BatchProcess(mentions, message_ids, processor, ext.ner)} :
        /\ ext.last.entry # "none" => ext.last.args = <<limit>>
        /\ Len(after) <= MaxMentions
        /\ mentions' = after
        /\ ext' = [ext EXCEPT !.last =
                      [entry |-> "process_unprocessed_messages", args |-> <<limit>>,
                       covered |-> Cardinality(Unprocessed(mentions)) <= limit,
                       repeat |-> ext.last.entry # "none",
                       after_covered |-> ext.last.entry # "none" /\ ext.last.covered,
                       had |-> { k \in DOMAIN messages : AlreadyProcessed(mentions, k) },
                       added |-> Len(after) - Len(mentions)]]
        /\ UNCHANGED <<collectors, messages, queue, worker, upstream, nextTask, ghost, std, tokens, stage2>>

NextCycle ==
    \E limit \in 1..MaxBulkLimit, processor \in Processors : Cycle(limit, processor)

SpecCycle == InitBulk /\ [][NextCycle]_vars /\ WF_vars(NextCycle)

(***************************************************************************)
(* Two invocations of MessageProcessor.process in separate workers, each   *)
(* with its own session: the check for existing Mentions and the commit of *)
(* save_mentions are separate steps, and the mentions table has no unique  *)
(* constraint on (message_id, token_id).                                   *)
(***************************************************************************)
Invocations == {1, 2}

IdleInvocation == [pc |-> "idle", message_id |-> 0, processor |-> MessageProcessor(TRUE, TRUE),
                   found |-> <<>>, saved_count |-> 0]

InitRace ==
    /\ collectors = (1 :> CollectorRow("telegram", BadJson)
                     @@ 2 :> CollectorRow("discord", JsonDumps(DiscordConfig)))
    /\ \E n \in 1..MaxStored : messages \in StoredRows(n)
    /\ queue = {}
    /\ worker = [w \in Workers |-> IdleWorker]
    /\ upstream = (ChannelKey :> <<TextA>>)
    /\ nextTask = 0
    /\ ghost = [offered |-> {}, has_last |-> FALSE, last_batch |-> <<>>,
                prev_seen_len |-> 0, prev_newest |-> 0]
    /\ std = {}
    /\ tokens = <<T1, T2>>
    /\ mentions = <<>>
    /\ stage2 = {}
    /\ \E ner \in {"nothing", "names"} :
          ext = [ner |-> ner, inv |-> [p \in Invocations |-> IdleInvocation]]

RaceUnchanged ==
    UNCHANGED <<collectors, messages, queue, worker, upstream, nextTask, ghost, std, tokens, stage2>>

\* process(message_id) is called: Message.query.get(message_id)
RaceStart(p, message_id, processor) ==
    /\ ext.inv[p].pc = "idle"
    /\ ext' = [ext EXCEPT !.inv[p] =
                  [@ EXCEPT !.pc = IF message_id \in DOMAIN messages THEN "check" ELSE "done",
                            !.message_id = message_id, !.processor = processor]]
    /\ UNCHANGED mentions
    /\ RaceUnchanged

\* "if message.mentions.count() > 0: return 0", else extract_token_mentions;
\* the count sees the committed Mentions
RaceCheck(p) ==
    /\ ext.inv[p].pc = "check"
    /\ ext' = [ext EXCEPT !.inv[p] =
                  IF AlreadyProcessed(mentions, ext.inv[p].message_id)
                  THEN [@ EXCEPT !.pc = "done"]
                  ELSE [@ EXCEPT !.pc = "save",
                                 !.found = ExtractTokenMentions(
                                     messages[ext.inv[p].message_id].content, tokens,
                                     ext.inv[p].processor,
                                     Recognise(messages[ext.inv[p].message_id].content,
                                               tokens, ext.ner))]]
    /\ UNCHANGED mentions
    /\ RaceUnchanged

\* save_mentions: the Mentions are added and committed
RaceSave(p) ==
    /\ ext.inv[p].pc = "save"
    /\ mentions' = SaveMentions(mentions, ext.inv[p].message_id, ext.inv[p].found)
    /\ ext' = [ext EXCEPT !.inv[p] = [@ EXCEPT !.pc = "done",
                                               !.saved_count = Len(ext.inv[p].found)]]
    /\ RaceUnchanged

NextRace ==
    \/ \E p \in Invocations, message_id \in 1..MaxStored, processor \in Processors :
          RaceStart(p, message_id, processor)
    \/ \E p \in Invocations : RaceCheck(p)
    \/ \E p \in Invocations : RaceSave(p)

SpecRace == InitRace /\ [][NextRace]_vars

(***************************************************************************)
(* EventProcessor over the events table.  The table is read with the      *)
(* columns the processor uses (event_type, timestamp, data, processed);   *)
(* ext.events is the table in id order, ext.last the last call.           *)
(***************************************************************************)
MaxEvents == 4
MaxEventLimit == 2
MaxInitialEvents == 2

EventTypes == {"price_change", "airdrop"}

EventRow(event_type, timestamp, data, processed) ==
    [event_type |-> event_type, timestamp |-> timestamp, data |-> data,
     processed |-> processed]

\* EventProcessor.process(event_data), as the table it leaves: a new Event is
\* added and committed with processed=False, handled by type (the handlers
\* log their own errors), then set processed=True and committed
ProcessEvent(events, event_data) ==
    Append(events, EventRow(event_data.event_type, event_data.timestamp,
                            JsonDumps(event_data.data), TRUE))

\* Event.query.filter_by(processed=False)
UnprocessedEvents(events) == { k \in DOMAIN events : ~events[k].processed }

RECURSIVE OrderByTimestamp(_, _)
OrderByTimestamp(events, ids) ==
    IF ids = {} THEN <<>>
    ELSE LET first == CHOOSE k \in ids :
                         \A j \in ids : \/ events[k].timestamp < events[j].timestamp
                                        \/ /\ events[k].timestamp = events[j].timestamp
                                           /\ k <= j
         IN  <<first>> \o OrderByTimestamp(events, ids \ {first})

\* .order_by(Event.timestamp).limit(limit).all()
SelectedEvents(events, limit) ==
    LET all == OrderByTimestamp(events, UnprocessedEvents(events))
    IN  SubSeq(all, 1, Min(limit, Len(all)))

RECURSIVE ProcessEach(_, _, _)
\* the "for event in unprocessed_events" loop: the rows were loaded by the
\* query; an event whose data does not parse is logged and skipped
ProcessEach(events, loaded, ids) ==
    IF ids = <<>> THEN events
    ELSE LET event == loaded[Head(ids)]
             data  == JsonLoads(event.data)
         IN  IF data.ok
             THEN ProcessEach(ProcessEvent(events,
                                  [event_type |-> event.event_type,
                                   timestamp |-> event.timestamp,
                                   data |-> data.value]),
                              loaded, Tail(ids))
             ELSE ProcessEach(events, loaded, Tail(ids))

\* EventProcessor.process_unprocessed_events
ProcessUnprocessedEvents(events, limit) ==
    ProcessEach(events, events, SelectedEvents(events, limit))

NoCall == [entry |-> "none", selected |-> {}, rows_before |-> 0, unprocessed_before |-> 0]

\* rows other code left in the table: any type, parseable data or not,
\* processed or not, timestamps in id order
EventTables(n) ==
    { [k \in 1..n |-> EventRow(type[k], k, JsonText(ok[k], <<>>), done[k])] :
        type \in [1..n -> EventTypes], ok \in [1..n -> BOOLEAN], done \in [1..n -> BOOLEAN] }

InitEvents ==
    /\ collectors = (1 :> CollectorRow("telegram", BadJson)
                     @@ 2 :> CollectorRow("discord", JsonDumps(DiscordConfig)))
    /\ messages = <<>>
    /\ queue = {}
    /\ worker = [w \in Workers |-> IdleWorker]
    /\ upstream = (ChannelKey :> <<TextA>>)
    /\ nextTask = 0
    /\ ghost = [offered |-> {}, has_last |-> FALSE, last_batch |-> <<>>,
                prev_seen_len |-> 0, prev_newest |-> 0]
    /\ std = {}
    /\ tokens = <<>>
    /\ mentions = <<>>
    /\ stage2 = {}
    /\ \E n \in 0..MaxInitialEvents : \E events \in EventTables(n) :
          ext = [events |-> events, last |-> NoCall]

EventsUnchanged ==
    UNCHANGED <<collectors, messages, queue, worker, upstream, nextTask, ghost, std, tokens, mentions, stage2>>

\* the process_all task and POST /processors/event/unprocessed
EventsUnprocessed(limit) ==
    /\ Len(ProcessUnprocessedEvents(ext.events, limit)) <= MaxEvents
    /\ ext' = [events |-> ProcessUnprocessedEvents(ext.events, limit),
               last |-> [entry |-> "process_unprocessed_events",
                         selected |-> { SelectedEvents(ext.events, limit)[k] :
                                          k \in DOMAIN SelectedEvents(ext.events, limit) },
                         rows_before |-> Len(ext.events),
                         unprocessed_before |-> Cardinality(UnprocessedEvents(ext.events))]]
    /\ EventsUnchanged

\* a call of EventProcessor.process with a new event
EventsProcess(event_type) ==
    /\ Len(ext.events) < MaxEvents
    /\ ext' = [events |-> ProcessEvent(ext.events,
                              [event_type |-> event_type,
                               timestamp |-> Len(ext.events) + 1, data |-> <<>>]),
               last |-> [entry |-> "process", selected |-> {},
                         rows_before |-> Len(ext.events),
                         unprocessed_before |-> Cardinality(UnprocessedEvents(ext.events))]]
    /\ EventsUnchanged

NextEvents ==
    \/ \E limit \in 1..MaxEventLimit : EventsUnprocessed(limit)
    \/ \E event_type \in EventTypes : EventsProcess(event_type)

SpecEvents == InitEvents /\ [][NextEvents]_vars

----------------------------------------------------------------------------
(* Properties *)

RowsWithContent(t) == { k \in DOMAIN messages : messages[k].content = t }

OfferedContents == { x.content : x \in ghost.offered }

\* C1: under sequential invocation of save_messages, once a call has ended,
\* every distinct text offered in some candidate batch so far is stored as
\* exactly one Message (never zero, never two).
C1_ExactlyOnce ==
    worker[1].pc # "save" =>
        \A t \in OfferedContents : Cardinality(RowsWithContent(t)) = 1

\* the same text was offered by a Telegram and by a Discord collector, and
\* each of two texts of one batch: one row for it
C1_Witness ==
    /\ worker[1].pc = "idle"
    /\ \E t \in OfferedContents :
          /\ [platform |-> "telegram", content |-> t] \in ghost.offered
          /\ [platform |-> "discord", content |-> t] \in ghost.offered
          /\ Cardinality(RowsWithContent(t)) = 1

\* C2: save_messages called again with the batch of the call before it
\* returns saved_count 0 and leaves the Message table as it found it.
C2_SecondCallSavesNothing ==
    ( /\ worker[1].pc \in {"finish", "except_run"}
      /\ worker[1].save_called
      /\ ghost.has_last
      /\ worker[1].batch = ghost.last_batch )
    => ( /\ worker[1].pc = "finish"
         /\ worker[1].saved_count = 0
         /\ messages = worker[1].call_store )

C2_Witness ==
    /\ worker[1].pc = "finish"
    /\ ghost.has_last
    /\ worker[1].batch = ghost.last_batch
    /\ Len(worker[1].batch) = 2
    /\ worker[1].skipped

\* C3: in every interleaving of collector runs the Message table never
\* holds two rows with the same content_hash; the unique constraint rejects
\* the insert of a candidate that had passed the gate's check.
C3_UniqueHash ==
    \A j, k \in DOMAIN messages :
        messages[j].content_hash = messages[k].content_hash => j = k

\* a run whose candidate passed the gate was refused by the constraint
\* while the row of the other run is in the table
C3_Witness ==
    \E w \in Workers :
        /\ worker[w].pc = "except_run"
        /\ worker[w].err = "IntegrityError"
        /\ worker[w].saved_count > 0
        /\ \E k \in DOMAIN worker[w].batch :
              Existing(messages, worker[w].batch[k].content_hash)

\* C4: duplicate content is never an error: a run whose collect_data and
\* standardize_message returned ends with status success and with every
\* candidate's text in the Message table, whatever a run of another
\* collector stores meanwhile.
C4_DuplicateNeverError ==
    \A w \in Workers :
        ( /\ worker[w].pc = "done"
          /\ worker[w].save_called
          /\ \A o \in Workers \ {w} : worker[o].cid # worker[w].cid )
        => /\ worker[w].end_row.last_run_status = "success"
           /\ \A k \in DOMAIN worker[w].batch :
                 Existing(messages, worker[w].batch[k].content_hash)

\* C5: the content hash every standardizer assigns depends on the text
\* alone: two standardized Messages with equal content have equal
\* content_hash, whatever their platform, author, source id or collector.
C5_HashOfTextAlone ==
    \A m1, m2 \in std :
        m1.content = m2.content => m1.content_hash = m2.content_hash

\* the same text standardized by two platforms, for two authors, two
\* source ids and two collectors
C5_Witness ==
    \E m1, m2 \in std :
        /\ m1.content = m2.content
        /\ m1.platform = "reddit" /\ m2.platform = "telegram"
        /\ m1.author_id # m2.author_id
        /\ m1.source_id # m2.source_id
        /\ m1.collector_id # m2.collector_id
        /\ \E m3 \in std : m3.platform = "twitter" /\ m3.content = m1.content

Status(c) == collectors[c].last_run_status

\* a collector that has never been enqueued has no status (NULL): the
\* claim's idle
Idle == None

C7_InvalidConfigFails ==
    \A w \in Workers :
        (worker[w].pc = "done" /\ worker[w].bad_config) =>
            /\ worker[w].end_row.last_run_status = "failure"
            /\ worker[w].end_row.last_run_message # NoMsg
            /\ ~worker[w].collect_called

\* C8: a run in which collect_data, standardize_message or save_messages
\* raised ends with status failure and the exception text committed.
C8_ExceptionCommitsFailure ==
    \A w \in Workers :
        (worker[w].pc = "done" /\ worker[w].collect_called /\ worker[w].raised) =>
            /\ worker[w].end_row.last_run_status = "failure"
            /\ worker[w].end_row.last_run_message # NoMsg
            /\ Head(worker[w].end_row.last_run_message) = "Error:"

\* C9: a run whose collect, standardize and save steps all returned commits
\* status success, the message 'Collected N new messages' with N the number
\* of rows the run added to the Message table, and the configuration as
\* collect_data advanced it.
C9_SuccessSummary ==
    \A w \in Workers :
        (worker[w].pc = "done" /\ worker[w].save_called /\ ~worker[w].raised) =>
            /\ worker[w].end_row.last_run_status = "success"
            /\ worker[w].end_row.last_run_message = CollectedMsg(worker[w].added)
            /\ worker[w].end_row.config = JsonDumps(worker[w].advanced)

\* a Telegram run stored one new Message and moved its cursor
C9_Witness ==
    \E w \in Workers :
        /\ worker[w].pc = "done" /\ worker[w].save_called /\ ~worker[w].raised
        /\ worker[w].added = 1
        /\ worker[w].ctype = "telegram"
        /\ worker[w].advanced.channels[1].offset_id # 0
        /\ worker[w].end_row.config.value.channels[1].offset_id =
              worker[w].advanced.channels[1].offset_id

\* C10: a channel collector run twice in sequence with no new upstream item
\* in between: after run 1 the persisted offset_id is the id of the newest
\* item run 1 collected, and run 2 stores no new Message.
C10_SecondRunStoresNothing ==
    /\ ( /\ worker[1].pc = "done" /\ worker[1].ctype = "telegram"
         /\ worker[1].save_called /\ ~worker[1].raised
         /\ worker[1].newest # 0 )
       => worker[1].end_row.config.value.channels[1].offset_id = worker[1].newest
    /\ ( /\ worker[1].pc = "finish" /\ worker[1].ctype = "telegram"
         /\ ghost.prev_newest # 0
         /\ ghost.prev_seen_len = worker[1].seen_len )
       => worker[1].added = 0

\* C11: a run in which the upstream call of a sub-target failed does not
\* abort: it ends with status success, and every text the other sub-targets
\* of its configuration held is in the Message table.
C11_SubTargetFailureIsolated ==
    (worker[1].pc = "done" /\ worker[1].sub_failed # {}) =>
        /\ ~worker[1].raised
        /\ worker[1].end_row.last_run_status = "success"
        /\ \A t \in worker[1].expected : RowsWithContent(t) # {}

\* C12: a run whose sub-target calls failed is marked success when some
\* sub-target yielded data, and failure with an error text when none did.
C12_AllFailedMarksFailure ==
    ( /\ worker[1].pc = "done" /\ worker[1].save_called
      /\ worker[1].sub_failed # {} ) =>
        IF worker[1].batch # <<>>
        THEN worker[1].end_row.last_run_status = "success"
        ELSE /\ worker[1].end_row.last_run_status = "failure"
             /\ worker[1].end_row.last_run_message # NoMsg
             /\ Head(worker[1].end_row.last_run_message) = "Error:"

\* positions of the extraction result that carry the token
EntriesFor(token) == { k \in DOMAIN ext.result : ext.result[k].token = token.id }

\* which signals match the token in the extracted text
SymbolHit(token) ==
    \E k \in DOMAIN FindAll(ext.text, 1) :
        LowerText(FindAll(ext.text, 1)[k]) = LowerText(token.symbol)

EntityHit(token) ==
    /\ \/ DetectLanguage(ext.text) = "en" /\ ext.processor.nlp_en
       \/ DetectLanguage(ext.text) = "zh" /\ ext.processor.nlp_zh
    /\ \E k \in DOMAIN ext.ents :
          /\ ext.ents[k].label \in EntityLabels
          /\ LowerText(ext.ents[k].text) = LowerText(token.name)

NameHit(token) == IsSubstring(LowerText(token.name), LowerText(ext.text))

AddressHit(token) == IsSubstring(LowerText(token.address), LowerText(ext.text))

HitConfidences(token) ==
    (IF SymbolHit(token) THEN {SymbolConfidence} ELSE {})
    \cup (IF EntityHit(token) THEN {EntityConfidence} ELSE {})
    \cup (IF NameHit(token) THEN {NameConfidence} ELSE {})
    \cup (IF AddressHit(token) THEN {AddressConfidence} ELSE {})

\* C13: one extraction returns at most one (token, confidence) entry per
\* token, whatever the text, also when a $symbol occurs more than once.
C13_OneEntryPerToken ==
    ext.extracted =>
        \A i \in DOMAIN ext.result, j \in DOMAIN ext.result :
            ext.result[i].token = ext.result[j].token => i = j

\* C14: for every token matched by one or more signals, the confidence kept
\* for it is the maximum of the confidences of the signals that matched.
C14_KeepsMaximum ==
    ext.extracted =>
        \A t \in DOMAIN tokens :
            HitConfidences(tokens[t]) # {} =>
                \A k \in EntriesFor(tokens[t]) :
                    /\ ext.result[k].confidence \in HitConfidences(tokens[t])
                    /\ \A c \in HitConfidences(tokens[t]) : c <= ext.result[k].confidence

\* C15: a token whose address occurs in the text gets exactly one entry, and
\* its confidence is 1.0, also when other signals match the same token.
C15_AddressIsCertain ==
    ext.extracted =>
        \A t \in DOMAIN tokens :
            AddressHit(tokens[t]) =>
                /\ Cardinality(EntriesFor(tokens[t])) = 1
                /\ \A k \in EntriesFor(tokens[t]) :
                      ext.result[k].confidence = AddressConfidence

\* C16: every catalog token whose symbol equals, case-insensitively, a $tag
\* of the text gets an entry with confidence >= 0.9, also when several
\* catalog tokens carry that symbol.
C16_EverySymbolBearer ==
    ext.extracted =>
        \A t \in DOMAIN tokens :
            SymbolHit(tokens[t]) =>
                \E k \in EntriesFor(tokens[t]) :
                    ext.result[k].confidence >= SymbolConfidence

\* C17: with the entity models unavailable, extraction returns exactly what
\* the symbol-tag, name-substring and address-substring signals produce.
C17_DegradesToThreeSignals ==
    (ext.extracted /\ ~ext.processor.nlp_en /\ ~ext.processor.nlp_zh) =>
        /\ ext.result = (IF ext.text = <<>> THEN <<>>
                         ELSE NameAddressSignal(SymbolSignal(FindAll(ext.text, 1), tokens),
                                                ext.text, tokens, 1))
        /\ \A k \in DOMAIN ext.result : ext.result[k].confidence # EntityConfidence

\* the models failed to load, an ORG entity of the text names a catalog
\* token, and that token is found by name
C17_Witness ==
    /\ ext.extracted /\ ~ext.processor.nlp_en /\ ~ext.processor.nlp_zh
    /\ \E t \in DOMAIN tokens :
          /\ \E k \in DOMAIN ext.ents :
                /\ ext.ents[k].label \in EntityLabels
                /\ LowerText(ext.ents[k].text) = LowerText(tokens[t].name)
          /\ \E k \in EntriesFor(tokens[t]) : ext.result[k].confidence = NameConfidence

\* C18 (as written): an entry point creates no Mention for a message that
\* already has one, and a run that repeats the run before it adds no Mention.
C18_SecondRunAddsNothing ==
    [][ /\ \A k \in DOMAIN mentions' \ DOMAIN mentions :
              ~AlreadyProcessed(mentions, mentions'[k].message_id)
        /\ ext'.last.repeat => mentions' = mentions ]_vars

\* C18 (amended): an entry point creates no Mention for a message that
\* already has one, and a run that repeats a run which took every message it
\* could select adds no Mention.
C18_SkipsProcessed ==
    [][ /\ \A k \in DOMAIN mentions' \ DOMAIN mentions :
              ~AlreadyProcessed(mentions, mentions'[k].message_id)
        /\ ext'.last.after_covered => mentions' = mentions ]_vars

\* a bulk run has just repeated a run that took everything, over messages
\* some of which carry Mentions from it
C18_Witness ==
    /\ ext.last.entry \in {"process_unprocessed_messages", "process_collector_messages"}
    /\ ext.last.after_covered
    /\ ext.last.had # {}
    /\ ext.last.added = 0

\* second tasks that a worker has taken, running or ended
Begun == { m \in stage2 : m.state \in {"STARTED", "SUCCESS", "FAILURE"} }

\* C19: stage 2 of a chain starts only after stage 1 of the same chain has
\* completed: once it has started, the chain's collect task is neither
\* waiting in the queue nor held by any worker.
C19_StageTwoAfterStageOne ==
    \A m \in Begun :
        /\ \A item \in queue : item.task_id # m.chain
        /\ \A w \in Workers : worker[w].task_id = m.chain => worker[w].pc = "stage2"
        /\ Len(m.args) = Len(<<m.cid, m.chain>>) + 1

\* stage 2 of one chain is running while another worker runs a collect task
C19_Witness ==
    \E m \in stage2 :
        /\ m.state = "STARTED"
        /\ \E w \in Workers : worker[w].pc = "stage2" /\ worker[w].task_id = m.chain
        /\ \E w \in Workers : worker[w].pc \notin {"idle", "stage2"}

\* C20: stage 2 of a chain enqueued for collector c runs bulk extraction
\* with collector id c and creates Mentions only for c's Messages.
C20_StageTwoScopedToCollector ==
    /\ \A m \in stage2 :
          m.state \in {"SUCCESS", "FAILURE"} =>
              m.state = "SUCCESS" /\ m.collector_id = m.cid
    /\ \A k \in DOMAIN mentions :
          \E m \in stage2 :
              /\ m.state = "SUCCESS"
              /\ messages[mentions[k].message_id].collector_id = m.cid

----------------------------------------------------------------------------
(* CollectorService.get_task_status *)

\* what run_collector returns: the id Celery gave the collect_and_process
\* task, which is not the uuid written into last_run_message
ResultId(task_id) == 0 - task_id

\* celery.AsyncResult(id).status: collect_and_process has returned once it
\* has submitted its chain; an id the backend has no result for is PENDING
AsyncResultStatus(id) ==
    IF \E m \in stage2 : ResultId(m.chain) = id THEN "SUCCESS" ELSE "PENDING"

\* Collector.query.filter(last_run_message.like('%Task ID: <id>%')).first()
CollectorByTask(id) ==
    LET hits == { c \in DOMAIN collectors : collectors[c].last_run_message = TaskMsg(id) }
    IN  IF hits = {} THEN [found |-> FALSE]
        ELSE LET c == CHOOSE c \in hits : \A d \in hits : c <= d
             IN  [found |-> TRUE, id |-> c,
                  last_run_status |-> collectors[c].last_run_status,
                  last_run_message |-> collectors[c].last_run_message]

GetTaskStatus(task_id) ==
    [task_id |-> task_id, status |-> AsyncResultStatus(task_id),
     collector |-> CollectorByTask(task_id)]

\* the chain of second task m has a task waiting, running, or still to run
InFlight(m) ==
    \/ \E item \in queue : item.task_id = m.chain
    \/ \E w \in Workers : worker[w].pc # "idle" /\ worker[w].task_id = m.chain
    \/ m.state \in {"queued", "STARTED"}

\* C21: for the id run_collector returned, get_task_status reports a state
\* that is not finished while the chain is in flight, and the entry of the
\* collector the chain was submitted for, with its recorded status and message.
C21_StatusFollowsChain ==
    \A m \in stage2 :
        LET r == GetTaskStatus(ResultId(m.chain))
        IN  /\ InFlight(m) => r.status \notin {"SUCCESS", "FAILURE"}
            /\ r.collector.found
            /\ r.collector.id = m.cid
            /\ r.collector.last_run_status = collectors[m.cid].last_run_status
            /\ r.collector.last_run_message = collectors[m.cid].last_run_message

\* C22: at most one chain per collector id is in flight at any time.
C22_SingleFlight ==
    \A m1 \in stage2, m2 \in stage2 :
        (m1.cid = m2.cid /\ InFlight(m1) /\ InFlight(m2)) => m1 = m2

C24_CursorsOnlyOnSuccess ==
    [][\A c \in DOMAIN collectors :
          /\ collectors'[c].config # collectors[c].config =>
                collectors'[c].last_run_status = "success"
          /\ (collectors'[c].last_run_status = "failure"
                /\ collectors'[c] # collectors[c]) =>
                collectors'[c].config = collectors[c].config]_vars

\* a run that advanced its cursors in memory has ended in failure, and the
\* stored configuration is not the advanced one
C24_Witness ==
    \E w \in Workers :
        /\ worker[w].pc = "done"
        /\ worker[w].save_called
        /\ worker[w].end_row.last_run_status = "failure"
        /\ collectors[worker[w].cid].last_run_status = "failure"
        /\ JsonDumps(worker[w].advanced) # collectors[worker[w].cid].config

\* C26: after collect_data, a sub-target whose own call returned nothing has
\* the cursor it had in the stored configuration, whatever the other
\* sub-targets returned and whether it is named by id or by username.
C26_CursorAdvanceIsLocal ==
    \A w \in Workers :
        (worker[w].pc \in {"save", "finish"} /\ worker[w].ctype = "telegram") =>
            LET before == JsonLoads(collectors[worker[w].cid].config).value.channels
                after  == worker[w].advanced.channels
            IN  \A k \in DOMAIN after :
                    k \in worker[w].sub_failed =>
                        after[k].offset_id = before[k].offset_id

\* C25: a finished run of any type whose adapter call did not fail went on
\* to save_messages; a finished twitter run ends as the base runner ends it
\* for the same upstream answers: save_messages was called, the status is
\* success and the tweets the answering users held are stored.
C25_OverrideMatchesBaseRunner ==
    (worker[1].pc = "done" /\ worker[1].collect_called
        /\ worker[1].err # "ConnectionError") =>
        /\ worker[1].save_called
        /\ worker[1].ctype = "twitter" =>
              /\ worker[1].end_row.last_run_status = "success"
              /\ \A t \in worker[1].expected : RowsWithContent(t) # {}

\* C27: a collector whose status is running eventually has status success
\* or failure.
C27_RunningEnds ==
    \A c \in CollectorIds :
        (collectors[c].last_run_status = "running")
            ~> (collectors[c].last_run_status \in {"success", "failure"})

\* the stored message matches a catalog token: extraction by symbol, name
\* and address alone finds a token in it
MatchesCatalog(k) ==
    /\ k \in DOMAIN messages
    /\ ExtractTokenMentions(messages[k].content, tokens,
                            MessageProcessor(FALSE, FALSE), <<>>) # <<>>

\* C28: under repeated cycles every stored message that matches a catalog
\* token eventually has a Mention.
C28_MatchingEventuallyMentioned ==
    \A k \in 1..MaxStored :
        MatchesCatalog(k) ~> AlreadyProcessed(mentions, k)

\* C29: the Mention table holds at most one Mention per (message, token),
\* however two invocations over the same message interleave.
C29_OneMentionPerPair ==
    \A i \in DOMAIN mentions, j \in DOMAIN mentions :
        (mentions[i].message_id = mentions[j].message_id
            /\ mentions[i].token_id = mentions[j].token_id) => i = j

\* C30: after process_unprocessed_events every selected event is processed,
\* the table has the rows it had, and no more events are unprocessed than
\* before the call (so a second call selects none of them again).
C30_SelectedEventsMarked ==
    ext.last.entry = "process_unprocessed_events" =>
        /\ \A k \in ext.last.selected : ext.events[k].processed
        /\ Len(ext.events) = ext.last.rows_before
        /\ Cardinality(UnprocessedEvents(ext.events)) <= ext.last.unprocessed_before
        /\ \A limit \in 1..MaxEventLimit, k \in ext.last.selected :
              \A j \in DOMAIN SelectedEvents(ext.events, limit) :
                  SelectedEvents(ext.events, limit)[j] # k

====
